---- MODULE Spec2Model ----
(***************************************************************************)
(* A model of optml's BayesianOptimizer                                    *)
(* (src/optml/bayesian_optimizer/bayesianoptimizer.py).                    *)
(*                                                                         *)
(* Spec        the object after construction and its fit() calls, one      *)
(*             action per step of fit / get_next_hyperparameters.          *)
(* SpecParams  construction over every ParameterSpec list up to MaxParams  *)
(*             and the two ParameterVector conversions.                    *)
(* SpecAcq     the four acquisition functions on bounded inputs.           *)
(*                                                                         *)
(* Numbers: parameter values are kept in half units (1 stands for 0.5), so *)
(* that int(round(v)) is not the identity.  A value is a record            *)
(* [k, v]: k = "num" for a number, k = "str" for a string.                 *)
(* The model fixes normalize = False (the constructor's default).          *)
(***************************************************************************)
EXTENDS Integers, Sequences, FiniteSets, TLC

VARIABLES
    \* ---- the optimizer object (set by __init__)
    hyperparams,            \* self.hyperparams: sequence of ParameterSpec records
    optimization_type,      \* self.optimization_type
    kernel,                 \* self.kernel
    n_restarts_optimizer,   \* self.n_restarts_optimizer
    start_vals,             \* self.start_vals: << >> is None, <<d>> a default dictionary
    hyperparam_history,     \* self.hyperparam_history: sequence of [score, params]
    non_convergence_count,  \* self.non_convergence_count; -1: attribute not set yet
    success,                \* self.success: "None", "True", "False"
    \* ---- one fit() call
    pc,                     \* "idle", "loop", "propose", "evaluate", "record", "done", "raised"
    args,                   \* fit's arguments: which of X_test, y_test, n_folds are given; n_iters
    i,                      \* fit's loop variable
    optimizer,              \* the Gaussian process regressor built by fit
    new_hyperparams,        \* fit's local new_hyperparams: << >> unbound, <<d>> bound
    score,                  \* fit's local score
    error,                  \* the exception a raising fit ended with
    \* ---- one get_next_hyperparameters() call
    r,                      \* the restart loop's variable
    sv,                     \* the local start_vals: << >> unbound, <<v>> bound (row 0)
    \* ---- history variables of the run (not fields of the program)
    hist0,                  \* hyperparam_history when the current fit call was entered
    origins,                \* per iteration begun in this run: "init", "success", "fallback"
    attempts,               \* the optimizer invocations of the current iteration
    refits,                 \* optimizer.fit calls in the current iteration
    evals,                  \* _fit_and_score_model calls in the current fit call
    \* ---- the pure functions' inputs and outputs
    conv,                   \* last conversion round trip: [op, inp, out]
    acq                     \* last acquisition evaluation: [fn, mu, std, best, out]

objVars == <<hyperparams, optimization_type, kernel, n_restarts_optimizer, start_vals>>
fitVars == <<hyperparam_history, non_convergence_count, success, pc, args, i,
             optimizer, new_hyperparams, score, error>>
nextVars == <<r, sv>>
ghostVars == <<hist0, origins, attempts, refits, evals>>
pureVars == <<conv, acq>>
vars == <<objVars, fitVars, nextVars, ghostVars, pureVars>>

----------------------------------------------------------------------------
(* Bounds *)

MaxIters == 3       \* largest n_iters passed to fit
MaxRestarts == 2    \* largest n_restarts_optimizer
MaxHistory == 3     \* fit is only called while the history stays within this length
MaxParams == 2      \* longest ParameterSpec list of SpecParams
MaxMean == 2        \* posterior means and best scores range over -MaxMean..MaxMean
MaxStd == 2         \* posterior stds range over 0..MaxStd

Scores == {0, 1}
Names == {"a", "b"}
ParamTypes == {"continuous", "integer", "categorical"}

----------------------------------------------------------------------------
(* Values and ParameterSpecs *)

Num(v) == [k |-> "num", v |-> v]
Str(v) == [k |-> "str", v |-> v]

HP(name, type, n) == [name |-> name, param_type |-> type, n_possible |-> n]

\* Python's round() on a half-unit number: ties go to the even integer.
PyRound(h) ==
    IF h % 2 = 0 THEN h
    ELSE IF ((h - 1) \div 2) % 2 = 0 THEN h - 1 ELSE h + 1

IntRound(val) == Num(PyRound(val.v))
StrCast(val) == Str(val.v)

\* Sequences over S of length exactly n.
RECURSIVE SeqsOfLen(_, _)
SeqsOfLen(S, n) ==
    IF n = 0 THEN {<< >>}
    ELSE {Append(s, x) : s \in SeqsOfLen(S, n - 1), x \in S}

RECURSIVE SeqsUpTo(_, _)
SeqsUpTo(S, n) ==
    IF n = 0 THEN {<< >>} ELSE SeqsUpTo(S, n - 1) \cup SeqsOfLen(S, n)

NameSet(hps) == {hps[k].name : k \in DOMAIN hps}

Min2(a, b) == IF a < b THEN a ELSE b

----------------------------------------------------------------------------
(* Construction: __init__, get_type_of_optimization, choose_kernel *)

n_categorical(hps) ==
    Cardinality({k \in DOMAIN hps : hps[k].param_type = "categorical"})

\* Mutant: any categorical spec makes the problem categorical.
get_type_of_optimization_any(hps) ==
    IF n_categorical(hps) > 0 THEN "categorical" ELSE "numerical"

get_type_of_optimization(hps) ==
    IF n_categorical(hps) = Len(hps) THEN "categorical"
    ELSE IF n_categorical(hps) > 0 THEN "mixed"
    ELSE "numerical"

choose_kernel(type) ==
    IF type = "categorical" THEN "HammingKernel"
    ELSE IF type = "mixed" THEN "WeightedHammingKernel"
    ELSE "Matern"

----------------------------------------------------------------------------
(* The two ParameterVector forms *)

\* The position whose value a dictionary built by iterating zip(hps, arr)
\* keeps for name nm: a later assignment to the same key overwrites.
LastIndex(hps, n, nm) ==
    CHOOSE k \in 1..n :
        /\ hps[k].name = nm
        /\ \A j \in (k + 1)..n : hps[j].name # nm

\* Mutant: the array is built in reverse order of self.hyperparams.
_param_dict_to_arr_reversed(hps, param_dict) ==
    [k \in 1..Len(hps) |-> param_dict[hps[Len(hps) + 1 - k].name]]

\* [param_dict[hp.name] for hp in self.hyperparams]
\* (a KeyError when a name is missing; every caller passes all names)
_param_dict_to_arr(hps, param_dict) ==
    [k \in 1..Len(hps) |-> param_dict[hps[k].name]]

\* {hp.name: p for hp, p in zip(self.hyperparams, param_arr)}
_param_arr_to_dict(hps, param_arr) ==
    LET n == Min2(Len(hps), Len(param_arr))
    IN  [nm \in {hps[k].name : k \in 1..n} |-> param_arr[LastIndex(hps, n, nm)]]

----------------------------------------------------------------------------
(* Values the collaborators outside this file hand in *)

\* hp.random_sample(): a point of the parameter's range.  A categorical
\* spec with a single allowed value has one sample.
SampleValues(hp) ==
    IF hp.param_type = "continuous" THEN {Num(1), Num(2)}
    ELSE IF hp.param_type = "integer" THEN {Num(0), Num(2)}
    ELSE IF hp.n_possible = 1 THEN {Str(1)}
    ELSE {Str(0), Str(1)}

\* A coordinate returned by an acquisition maximizer: numeric coordinates are
\* floats within the bounds (not rounded), categorical ones allowed values.
ResultValues(hp) ==
    IF hp.param_type = "categorical"
    THEN (IF hp.n_possible = 1 THEN {Str(1)} ELSE {Str(0), Str(1)})
    ELSE {Num(1), Num(2)}

\* The user's start_vals dictionary (one per space).
DefaultValue(hp) ==
    IF hp.param_type = "continuous" THEN Num(1)
    ELSE IF hp.param_type = "integer" THEN Num(2)
    ELSE Str(1)

\* The arrays with one value per hyperparameter, the k-th from ranges[k].
Vectors(hps, ranges) ==
    {v \in SeqsOfLen(UNION {ranges[k] : k \in DOMAIN hps}, Len(hps)) :
        \A k \in DOMAIN hps : v[k] \in ranges[k]}

SampleVectors(hps) == Vectors(hps, [k \in DOMAIN hps |-> SampleValues(hps[k])])
ResultVectors(hps) == Vectors(hps, [k \in DOMAIN hps |-> ResultValues(hps[k])])

DefaultDict(hps) ==
    _param_arr_to_dict(hps, [k \in 1..Len(hps) |-> DefaultValue(hps[k])])

\* get_random_values_arr()[0] / get_default_values_arr()[0]
get_random_values_arr(hps) == SampleVectors(hps)
get_default_values_arr(hps, sd) == {_param_dict_to_arr(hps, sd)}

\* get_random_values_dict() / get_default_values_dict()
get_random_values_dict(hps) ==
    {_param_arr_to_dict(hps, v) : v \in SampleVectors(hps)}
get_default_values_dict(sd) == {sd}

\* What the maximizers can return: scipy's result (x, success), the
\* annealer's (state, energy) and the exhaustive maximizer's dictionary.
ScipyResults(hps) ==
    {[x |-> v, success |-> b] : v \in ResultVectors(hps), b \in BOOLEAN}
AnnealResults(hps) ==
    {[vals |-> _param_arr_to_dict(hps, v), nan |-> b] :
        v \in ResultVectors(hps), b \in BOOLEAN}

----------------------------------------------------------------------------
(* Acquisition maximization, by optimization type *)

GridThreshold == 1000

RECURSIVE Product(_, _)
Product(hps, k) ==
    IF k = 0 THEN 1 ELSE Product(hps, k - 1) * hps[k].n_possible

\* len(cartesian_product(*param_grid))
n_combinations(hps) == Product(hps, Len(hps))

\* Each result also names the maximizer that produced it and says whether the
\* score it returned was NaN (only the annealer's score is looked at).
optimize_continuous_problem(res) ==
    [success |-> res.success, x |-> res.x, method |-> "L-BFGS-B", nan |-> FALSE]

\* res is the annealer's result above the threshold, the exhaustive
\* maximizer's (whose nan field is not read) otherwise.
optimize_categorical_problem(hps, res) ==
    IF n_combinations(hps) > GridThreshold
    THEN [success |-> ~res.nan, x |-> _param_dict_to_arr(hps, res.vals),
          method |-> "MixedAnnealer", nan |-> res.nan]
    ELSE [success |-> TRUE, x |-> _param_dict_to_arr(hps, res.vals),
          method |-> "CategoricalMaximizer", nan |-> FALSE]

optimize_mixed_problem(hps, res) ==
    [success |-> ~res.nan, x |-> _param_dict_to_arr(hps, res.vals),
     method |-> "MixedAnnealer", nan |-> res.nan]

\* The results one optimizer invocation can give (lines 300-305).
Minimized(hps, type) ==
    IF type = "numerical"
    THEN {optimize_continuous_problem(res) : res \in ScipyResults(hps)}
    ELSE IF type = "categorical"
    THEN {optimize_categorical_problem(hps, res) : res \in AnnealResults(hps)}
    ELSE {optimize_mixed_problem(hps, res) : res \in AnnealResults(hps)}

\* Lines 310-316: one coordinate of a successful result.
ConvertCoord(hp, v) ==
    IF hp.param_type = "integer" THEN IntRound(v)
    ELSE IF hp.param_type = "categorical" THEN StrCast(v)
    ELSE v

\* Lines 309-317: new_params built by iterating zip(self.hyperparams, x).
NewParams(hps, x) ==
    LET n == Min2(Len(hps), Len(x))
    IN  [nm \in {hps[k].name : k \in 1..n} |->
            LET k == LastIndex(hps, n, nm) IN ConvertCoord(hps[k], x[k])]

\* Mutant: only the first coordinate of the start vector is zipped.
FallbackParamsFirstOnly(hps, start) == _param_arr_to_dict(hps, <<start[1]>>)

\* Line 322: the fallback proposal, from the local start_vals.
FallbackParams(hps, start) == _param_arr_to_dict(hps, start)

\* Mutant: the restart loop does not return on success.
ReturnsAfterNever(ok) == FALSE

\* Lines 308, 317: a successful attempt returns, a failed one goes on to
\* the next restart index.
ReturnsAfter(ok) == ok

\* Mutant: the counter is not incremented.
CountAfterFallbackStuck(c) == c

\* Line 321
CountAfterFallback(c) == c + 1

\* Mutant: the second branch tests "and" instead of "or".
fit_validate_and(X_test, y_test, n_folds) ==
    IF ~X_test /\ ~y_test THEN "ok"
    ELSE IF ~X_test /\ ~y_test THEN "MissingValueException"
    ELSE IF X_test /\ y_test /\ n_folds THEN "Exception"
    ELSE "ok"

\* Lines 415-421: fit's check of its evaluation configuration.  The
\* arguments say which of X_test, y_test, n_folds are given (not None).
fit_validate(X_test, y_test, n_folds) ==
    IF ~X_test /\ ~y_test THEN "ok"
    ELSE IF ~X_test \/ ~y_test THEN "MissingValueException"
    ELSE IF X_test /\ y_test /\ n_folds THEN "Exception"
    ELSE "ok"

\* Mutant: the regressor is fitted on the history without its last entry.
SurrogateDataStale(hps, history) ==
    [fitted |-> TRUE,
     xs |-> [k \in 1..(Len(history) - 1) |-> _param_dict_to_arr(hps, history[k].params)],
     ys |-> [k \in 1..(Len(history) - 1) |-> history[k].score]]

\* Lines 430-435: what the regressor is fitted on.
SurrogateData(hps, history) ==
    [fitted |-> TRUE,
     xs |-> [k \in 1..Len(history) |-> _param_dict_to_arr(hps, history[k].params)],
     ys |-> [k \in 1..Len(history) |-> history[k].score]]

\* Mutant: the newest entry replaces the last one.
AppendEntryReplacing(history, s, params) ==
    IF history = << >> THEN <<[score |-> s, params |-> params]>>
    ELSE [history EXCEPT ![Len(history)] = [score |-> s, params |-> params]]

\* Line 445
AppendEntry(history, s, params) ==
    Append(history, [score |-> s, params |-> params])

----------------------------------------------------------------------------
(* Initial states *)

\* The search spaces fit is run on: numerical, mixed, categorical below, at
\* and above the grid threshold, and one whose two specs share a name.
FitSpaces ==
    { <<HP("a", "continuous", 0)>>,
      <<HP("a", "integer", 0), HP("b", "categorical", 1)>>,
      <<HP("a", "categorical", 2)>>,
      <<HP("a", "categorical", 1001)>>,
      <<HP("a", "categorical", 1000), HP("b", "categorical", 1)>>,
      <<HP("a", "continuous", 0), HP("a", "integer", 0)>> }

NoArgs == [X_test |-> FALSE, y_test |-> FALSE, n_folds |-> FALSE, n_iters |-> 0]
Unfitted == [fitted |-> FALSE, xs |-> << >>, ys |-> << >>]
NoConv == [op |-> "none", inp |-> << >>, out |-> << >>]
NoAcq == [fn |-> "none", mu |-> 0, std |-> 0, best |-> 0,
          out |-> [val |-> 0, nan |-> FALSE, divs |-> 0]]

\* The object after __init__ (lines 48-62), no fit call made yet.
Constructed(hps, n_restarts, sd) ==
    /\ hyperparams = hps
    /\ optimization_type = get_type_of_optimization(hps)
    /\ kernel = choose_kernel(get_type_of_optimization(hps))
    /\ n_restarts_optimizer = n_restarts
    /\ start_vals = sd
    /\ hyperparam_history = << >>
    /\ non_convergence_count = -1
    /\ success = "None"
    /\ pc = "idle"
    /\ args = NoArgs
    /\ i = 0
    /\ optimizer = Unfitted
    /\ new_hyperparams = << >>
    /\ score = << >>
    /\ error = "none"
    /\ r = 0
    /\ sv = << >>
    /\ hist0 = << >>
    /\ origins = << >>
    /\ attempts = << >>
    /\ refits = 0
    /\ evals = 0

Init ==
    /\ \E hps \in FitSpaces, n \in 0..MaxRestarts, given \in BOOLEAN :
            Constructed(hps, n, IF given THEN <<DefaultDict(hps)>> ELSE << >>)
    /\ conv = NoConv
    /\ acq = NoAcq

----------------------------------------------------------------------------
(* fit *)

Callable == pc \in {"idle", "done", "raised"}

\* Lines 415-421 raise: nothing of the object changes.
FitRaise ==
    \E xt \in BOOLEAN, yt \in BOOLEAN, nf \in BOOLEAN, n \in 1..MaxIters :
        /\ Callable
        /\ Len(hyperparam_history) + n <= MaxHistory
        /\ fit_validate(xt, yt, nf) # "ok"
        /\ args' = [X_test |-> xt, y_test |-> yt, n_folds |-> nf, n_iters |-> n]
        /\ pc' = "raised"
        /\ error' = fit_validate(xt, yt, nf)
        /\ hist0' = hyperparam_history
        /\ evals' = 0
        /\ UNCHANGED <<objVars, hyperparam_history, non_convergence_count, success,
                       i, optimizer, new_hyperparams, score, nextVars,
                       origins, attempts, refits, pureVars>>

\* Lines 415-427: the configuration is accepted, the counter is reset and a
\* new regressor is built.
\* n_iters ranges over 1..MaxIters: with no iteration at all the call rests
\* on get_best_params_and_model alone, which is not part of this file.
FitStart ==
    \E xt \in BOOLEAN, yt \in BOOLEAN, nf \in BOOLEAN, n \in 1..MaxIters :
        /\ Callable
        /\ Len(hyperparam_history) + n <= MaxHistory
        /\ fit_validate(xt, yt, nf) = "ok"
        /\ args' = [X_test |-> xt, y_test |-> yt, n_folds |-> nf, n_iters |-> n]
        /\ non_convergence_count' = 0
        /\ optimizer' = Unfitted
        /\ i' = 0
        /\ pc' = "loop"
        /\ error' = "none"
        /\ new_hyperparams' = << >>
        /\ score' = << >>
        /\ r' = 0
        /\ sv' = << >>
        /\ hist0' = hyperparam_history
        /\ origins' = << >>
        /\ attempts' = << >>
        /\ refits' = 0
        /\ evals' = 0
        /\ UNCHANGED <<objVars, hyperparam_history, success, pureVars>>

\* Lines 437-441: iteration 0 takes a random or the default point.
InitialProposal ==
    /\ pc = "loop"
    /\ i < args.n_iters
    /\ i = 0
    /\ \E d \in (IF start_vals = << >>
                 THEN get_random_values_dict(hyperparams)
                 ELSE get_default_values_dict(start_vals[1])) :
            new_hyperparams' = <<d>>
    /\ origins' = Append(origins, "init")
    /\ attempts' = << >>
    /\ pc' = "evaluate"
    /\ UNCHANGED <<objVars, hyperparam_history, non_convergence_count, success,
                   args, i, optimizer, score, error, nextVars,
                   hist0, refits, evals, pureVars>>

\* Lines 429-435: iteration i > 0 refits the regressor on the history, then
\* enters get_next_hyperparameters (line 294).
RefitSurrogate ==
    /\ pc = "loop"
    /\ i < args.n_iters
    /\ i > 0
    /\ optimizer' = SurrogateData(hyperparams, hyperparam_history)
    /\ refits' = refits + 1
    /\ r' = 0
    /\ sv' = << >>
    /\ attempts' = << >>
    /\ pc' = "propose"
    /\ UNCHANGED <<objVars, hyperparam_history, non_convergence_count, success,
                   args, i, new_hyperparams, score, error,
                   hist0, origins, evals, pureVars>>

\* Lines 295-317: one pass of the restart loop.
Attempt ==
    /\ pc = "propose"
    /\ r < n_restarts_optimizer
    /\ \E start \in (IF start_vals = << >>
                     THEN get_random_values_arr(hyperparams)
                     ELSE get_default_values_arr(hyperparams, start_vals[1])),
          m \in Minimized(hyperparams, optimization_type) :
            /\ sv' = <<start>>
            /\ success' = IF m.success THEN "True" ELSE "False"
            /\ attempts' = Append(attempts,
                    [idx |-> r, ok |-> m.success, method |-> m.method, nan |-> m.nan,
                     x |-> IF m.success THEN m.x ELSE << >>])
            /\ IF ReturnsAfter(m.success)
               THEN /\ new_hyperparams' = <<NewParams(hyperparams, m.x)>>
                    /\ origins' = Append(origins, "success")
                    /\ pc' = "evaluate"
                    /\ r' = r
               ELSE /\ r' = r + 1
                    /\ pc' = "propose"
                    /\ UNCHANGED <<new_hyperparams, origins>>
    /\ UNCHANGED <<objVars, hyperparam_history, non_convergence_count,
                   args, i, optimizer, score, error, hist0, refits, evals, pureVars>>

\* Lines 318-322: the loop ran out of restarts.  With no pass made the local
\* start_vals is unbound and line 322 raises UnboundLocalError.
Fallback ==
    /\ pc = "propose"
    /\ r >= n_restarts_optimizer
    /\ success' = "False"
    /\ non_convergence_count' = CountAfterFallback(non_convergence_count)
    /\ origins' = Append(origins, "fallback")
    /\ IF sv = << >>
       THEN /\ pc' = "raised"
            /\ error' = "UnboundLocalError"
            /\ UNCHANGED new_hyperparams
       ELSE /\ new_hyperparams' = <<FallbackParams(hyperparams, sv[1])>>
            /\ pc' = "evaluate"
            /\ UNCHANGED error
    /\ UNCHANGED <<objVars, hyperparam_history, args, i, optimizer, score,
                   nextVars, hist0, attempts, refits, evals, pureVars>>

\* Lines 442-443: the model is built, trained and scored on the proposal.
Evaluate ==
    /\ pc = "evaluate"
    /\ \E s \in Scores : score' = <<s>>
    /\ evals' = evals + 1
    /\ pc' = "record"
    /\ UNCHANGED <<objVars, hyperparam_history, non_convergence_count, success,
                   args, i, optimizer, new_hyperparams, error, nextVars,
                   hist0, origins, attempts, refits, pureVars>>

\* Line 445, and the loop's step to the next i.  The locals of the
\* get_next_hyperparameters call of this iteration are gone.
Record ==
    /\ pc = "record"
    /\ hyperparam_history' = AppendEntry(hyperparam_history, score[1], new_hyperparams[1])
    /\ i' = i + 1
    /\ r' = 0
    /\ sv' = << >>
    /\ attempts' = << >>
    /\ refits' = 0
    /\ pc' = "loop"
    /\ UNCHANGED <<objVars, non_convergence_count, success, args, optimizer,
                   new_hyperparams, score, error, hist0, origins, evals, pureVars>>

\* Lines 447-448: the loop is over and fit returns.
Finish ==
    /\ pc = "loop"
    /\ i >= args.n_iters
    /\ pc' = "done"
    /\ UNCHANGED <<objVars, hyperparam_history, non_convergence_count, success,
                   args, i, optimizer, new_hyperparams, score, error, nextVars,
                   ghostVars, pureVars>>

Next ==
    \/ FitRaise
    \/ FitStart
    \/ InitialProposal
    \/ RefitSurrogate
    \/ Attempt
    \/ Fallback
    \/ Evaluate
    \/ Record
    \/ Finish

Spec == Init /\ [][Next]_vars

----------------------------------------------------------------------------
(* SpecParams: construction over every ParameterSpec list, and the round    *)
(* trips between the array and the dictionary form                          *)

AllParameterSpecs ==
    {HP(nm, t, IF t = "categorical" THEN 2 ELSE 0) : nm \in Names, t \in ParamTypes}

AllSpaces == SeqsUpTo(AllParameterSpecs, MaxParams)

\* The dictionaries keyed by exactly the names of hps.
DictsOver(hps) ==
    [NameSet(hps) -> UNION {SampleValues(hp) : hp \in AllParameterSpecs}]

InitParams ==
    /\ \E hps \in AllSpaces : Constructed(hps, MaxRestarts, << >>)
    /\ conv = NoConv
    /\ acq = NoAcq

ArrRoundTrip ==
    /\ \E v \in SampleVectors(hyperparams) :
        conv' = [op |-> "arr", inp |-> v,
                 out |-> _param_dict_to_arr(hyperparams,
                            _param_arr_to_dict(hyperparams, v))]
    /\ UNCHANGED <<objVars, fitVars, nextVars, ghostVars, acq>>

DictRoundTrip ==
    /\ \E d \in DictsOver(hyperparams) :
        conv' = [op |-> "dict", inp |-> d,
                 out |-> _param_arr_to_dict(hyperparams,
                            _param_dict_to_arr(hyperparams, d))]
    /\ UNCHANGED <<objVars, fitVars, nextVars, ghostVars, acq>>

NextParams ==
    \/ ArrRoundTrip
    \/ DictRoundTrip

SpecParams == InitParams /\ [][NextParams]_vars

----------------------------------------------------------------------------
(* SpecAcq: the acquisition functions.  mu, std and best are whole numbers; *)
(* results are in thousandths.  The normal cdf and pdf are tabulated at the *)
(* half integers of [-4, 4] (in thousandths) and gamma is rounded to the    *)
(* nearest of them.                                                         *)

NormCdfTable ==
    <<0, 0, 1, 6, 23, 67, 159, 309, 500, 691, 841, 933, 977, 994, 999, 1000, 1000>>
NormPdfTable ==
    <<0, 1, 4, 18, 54, 130, 242, 352, 399, 352, 242, 130, 54, 18, 4, 1, 0>>

\* gamma (in thousandths) to its index in the tables
TableIndex(g) ==
    LET h == (g + 250) \div 500
    IN  IF h < -8 THEN 1 ELSE IF h > 8 THEN 17 ELSE h + 9

norm_cdf(g) == NormCdfTable[TableIndex(g)]
norm_pdf(g) == NormPdfTable[TableIndex(g)]

\* a / std in numpy floats (a in thousandths): no exception at std = 0, the
\* result is inf or nan
DivByStd(a, std) ==
    [nan |-> std = 0, v |-> IF std = 0 THEN 0 ELSE a \div std]

Result(val, nan, divs) == [val |-> val, nan |-> nan, divs |-> divs]

\* xi = 0.01, in thousandths
exploration_control == 10

upper_confidence_bound(mu, std, best) ==
    Result(1000 * mu + 1960 * std, FALSE, 0)

expected_improvement(mu, std, best) ==
    IF std = 0 THEN Result(0, FALSE, 0)
    ELSE LET gamma == DivByStd(1000 * (mu - best), std)
         IN  Result(std * ((gamma.v * norm_cdf(gamma.v)) \div 1000 + norm_pdf(gamma.v)),
                    gamma.nan, 1)

generalized_expected_improvement(mu, std, best) ==
    IF std = 0 THEN Result(0, FALSE, 0)
    ELSE LET d == 1000 * (mu - best) - exploration_control
             gamma == DivByStd(d, std)
         IN  Result((d * norm_cdf(gamma.v)) \div 1000 + std * norm_pdf(gamma.v),
                    gamma.nan, 1)

\* Mutant: no std == 0 branch.
probability_of_improvement_unchecked(mu, std, best) ==
    LET gamma == DivByStd(1000 * (mu - best), std)
    IN  Result(norm_cdf(gamma.v), gamma.nan, 1)

probability_of_improvement(mu, std, best) ==
    IF std = 0 THEN Result(0, FALSE, 0)
    ELSE LET gamma == DivByStd(1000 * (mu - best), std)
         IN  Result(norm_cdf(gamma.v), gamma.nan, 1)

AcquisitionNames ==
    {"upper_confidence_bound", "expected_improvement",
     "generalized_expected_improvement", "probability_of_improvement"}

InitAcq ==
    /\ Constructed(<<HP("a", "continuous", 0)>>, MaxRestarts, << >>)
    /\ conv = NoConv
    /\ \E mu \in (0 - MaxMean)..MaxMean, std \in 0..MaxStd, best \in (0 - MaxMean)..MaxMean :
        acq = [fn |-> "none", mu |-> mu, std |-> std, best |-> best,
               out |-> Result(0, FALSE, 0)]

Acquire(fn, out) ==
    /\ acq.fn = "none"
    /\ acq' = [acq EXCEPT !.fn = fn, !.out = out]
    /\ UNCHANGED <<objVars, fitVars, nextVars, ghostVars, conv>>

UpperConfidenceBound ==
    Acquire("upper_confidence_bound", upper_confidence_bound(acq.mu, acq.std, acq.best))
ExpectedImprovement ==
    Acquire("expected_improvement", expected_improvement(acq.mu, acq.std, acq.best))
GeneralizedExpectedImprovement ==
    Acquire("generalized_expected_improvement",
            generalized_expected_improvement(acq.mu, acq.std, acq.best))
ProbabilityOfImprovement ==
    Acquire("probability_of_improvement",
            probability_of_improvement(acq.mu, acq.std, acq.best))

NextAcq ==
    \/ UpperConfidenceBound
    \/ ExpectedImprovement
    \/ GeneralizedExpectedImprovement
    \/ ProbabilityOfImprovement

SpecAcq == InitAcq /\ [][NextAcq]_vars

----------------------------------------------------------------------------
(* Claims *)

InLoop == pc \in {"propose", "evaluate", "record"}

\* The current iteration has taken its path (random/default point, a
\* successful attempt, or the fallback).
Decided == Len(origins) = i + 1

LastOrigin == origins[Len(origins)]

NumFallbacks == Cardinality({k \in DOMAIN origins : origins[k] = "fallback"})

IsPrefix(s, t) == Len(s) <= Len(t) /\ SubSeq(t, 1, Len(s)) = s

DistinctNames(hps) ==
    \A j \in DOMAIN hps, k \in DOMAIN hps : j # k => hps[j].name # hps[k].name

\* ---- C1 ----------------------------------------------------------------
\* C1 (as amended): a fit call appends exactly one entry per loop iteration
\* to the history it found and removes none, so when fit(n_iters = N)
\* returns the history holds the entries it held at entry followed by N new
\* ones: exactly N after the first call on a new object, more after a later
\* call.
C1_HistoryGrowsByNIters ==
    /\ IsPrefix(hist0, hyperparam_history)
    /\ pc \in {"loop", "done"} => Len(hyperparam_history) = Len(hist0) + i
    /\ pc = "done" =>
        /\ Len(hyperparam_history) = Len(hist0) + args.n_iters
        /\ hist0 = << >> => Len(hyperparam_history) = args.n_iters

\* C1 witness: a second fit call on the same object has returned.
C1_Witness ==
    /\ pc = "done"
    /\ hist0 # << >>
    /\ args.n_iters = 2
    /\ Len(hyperparam_history) = Len(hist0) + 2

\* C1 (as stated): when fit(n_iters = N) returns the history holds exactly N
\* entries, for every fit call on the object.
C1_ExactlyNIters ==
    pc = "done" => Len(hyperparam_history) = args.n_iters

\* ---- C2 ----------------------------------------------------------------
\* C2: fit raises MissingValueException when exactly one of X_test / y_test
\* is given, raises the conflict Exception when both are given together with
\* n_folds, in both cases before any evaluation and with the history
\* untouched; every other combination is accepted and enters the loop.
C2_ConfigurationCheck ==
    LET one == args.X_test # args.y_test
        conflict == args.X_test /\ args.y_test /\ args.n_folds
        rejected(e) ==
            /\ pc = "raised"
            /\ error = e
            /\ evals = 0
            /\ hyperparam_history = hist0
    IN  pc # "idle" =>
            /\ one => rejected("MissingValueException")
            /\ conflict => rejected("Exception")
            /\ (~one /\ ~conflict) =>
                /\ pc \in {"loop", "propose", "evaluate", "record", "done", "raised"}
                /\ error \notin {"MissingValueException", "Exception"}
                /\ non_convergence_count >= 0

\* C2 witness: a call with y_test but no X_test, on an object whose history
\* is not empty, has been rejected.
C2_Witness ==
    /\ pc = "raised"
    /\ error = "MissingValueException"
    /\ ~args.X_test /\ args.y_test
    /\ hyperparam_history # << >>

\* ---- C3 ----------------------------------------------------------------
\* C3 (as stated): in an iteration i > 0 in which no attempt succeeds,
\* get_next_hyperparameters returns a proposal without raising and the run
\* goes on, for every n_restarts_optimizer >= 0.
C3_NonConvergenceNeverAborts ==
    (Decided /\ origins # << >> /\ LastOrigin = "fallback") =>
        /\ error # "UnboundLocalError"
        /\ new_hyperparams # << >>

\* ---- C4 ----------------------------------------------------------------
\* C4: once fit has started its loop, non_convergence_count equals the number
\* of iterations of this run that took the fallback path; iteration 0 never
\* does, and an iteration takes it only with every attempt failed, an
\* iteration with a successful attempt never.
C4_CounterCountsFallbacks ==
    non_convergence_count # -1 =>
        /\ non_convergence_count = NumFallbacks
        /\ origins # << >> => origins[1] = "init"
        /\ \A k \in DOMAIN origins : k > 1 => origins[k] # "init"
        /\ (InLoop /\ Decided /\ LastOrigin = "fallback") =>
                \A k \in DOMAIN attempts : ~attempts[k].ok
        /\ (InLoop /\ Decided /\ LastOrigin = "success") =>
                \E k \in DOMAIN attempts : attempts[k].ok

\* C4 witness: a run of three iterations, one by fallback and one by a
\* successful attempt, has returned with the counter at 1.
C4_Witness ==
    /\ pc = "done"
    /\ non_convergence_count = 1
    /\ origins \in {<<"init", "fallback", "success">>, <<"init", "success", "fallback">>}

\* ---- C5 ----------------------------------------------------------------
\* C5 (as amended): at std = 0 expected_improvement,
\* generalized_expected_improvement and probability_of_improvement return
\* exactly 0 without dividing by std; upper_confidence_bound has no such
\* branch and returns the mean (0 only for mean 0), and never divides by std.
\* No function divides by a zero std.
C5_ZeroStdUtility ==
    acq.fn # "none" =>
        /\ (acq.std = 0 /\ acq.fn # "upper_confidence_bound") =>
                acq.out = Result(0, FALSE, 0)
        /\ acq.fn = "upper_confidence_bound" =>
                /\ acq.out.divs = 0
                /\ acq.std = 0 => acq.out.val = 1000 * acq.mu
        /\ acq.out.divs > 0 => acq.std # 0
        /\ ~acq.out.nan

\* C5 witness: probability_of_improvement evaluated at std = 0 with a mean
\* above the best score.
C5_Witness ==
    /\ acq.fn = "probability_of_improvement"
    /\ acq.std = 0
    /\ acq.mu > acq.best
    /\ acq.out.val = 0

\* C5 (as stated): at std = 0 each of the four acquisition functions returns
\* exactly 0, before any division by std.
C5_AllFourZero ==
    (acq.fn # "none" /\ acq.std = 0) => (acq.out.val = 0 /\ acq.out.divs = 0)

\* ---- C6 ----------------------------------------------------------------
IsCategorical(hp) == hp.param_type = "categorical"

\* C6 (as amended): the type is 'categorical' when every spec is categorical,
\* which includes the empty list; 'numerical' when the list is not empty and
\* no spec is categorical; 'mixed' otherwise; and the kernel is Hamming,
\* Matern and WeightedHamming respectively.
C6_TypeAndKernel ==
    LET all == \A k \in DOMAIN hyperparams : IsCategorical(hyperparams[k])
        none == \A k \in DOMAIN hyperparams : ~IsCategorical(hyperparams[k])
    IN  /\ all =>
            optimization_type = "categorical" /\ kernel = "HammingKernel"
        /\ (none /\ hyperparams # << >>) =>
            optimization_type = "numerical" /\ kernel = "Matern"
        /\ (~all /\ ~none) =>
            optimization_type = "mixed" /\ kernel = "WeightedHammingKernel"

\* C6 witness: a list of one categorical and one continuous spec, classified
\* mixed.
C6_Witness ==
    /\ Len(hyperparams) = 2
    /\ IsCategorical(hyperparams[1])
    /\ hyperparams[2].param_type = "continuous"
    /\ optimization_type = "mixed"

\* C6 (as stated): 'categorical' when all specs are categorical, 'numerical'
\* when none is (0 categorical specs), 'mixed' otherwise, for every list, the
\* empty one included, with the matching kernel.
C6_NoneIsNumerical ==
    LET all == \A k \in DOMAIN hyperparams : IsCategorical(hyperparams[k])
        none == \A k \in DOMAIN hyperparams : ~IsCategorical(hyperparams[k])
    IN  /\ all =>
            optimization_type = "categorical" /\ kernel = "HammingKernel"
        /\ none =>
            optimization_type = "numerical" /\ kernel = "Matern"
        /\ (~all /\ ~none) =>
            optimization_type = "mixed" /\ kernel = "WeightedHammingKernel"

\* ---- C7 ----------------------------------------------------------------
\* C7 (as amended): dictionary -> array -> dictionary gives the dictionary
\* back for every ParameterSpec list; array -> dictionary -> array gives the
\* array back when the names are pairwise distinct, and otherwise an array
\* in which each position holds the input's value at the last position
\* carrying the same name.  Positions follow self.hyperparams.
C7_RoundTrip ==
    /\ conv.op = "dict" => conv.out = conv.inp
    /\ conv.op = "arr" =>
        /\ Len(conv.out) = Len(hyperparams)
        /\ \A k \in DOMAIN hyperparams :
            \E j \in k..Len(hyperparams) :
                /\ hyperparams[j].name = hyperparams[k].name
                /\ \A l \in (j + 1)..Len(hyperparams) :
                        hyperparams[l].name # hyperparams[k].name
                /\ conv.out[k] = conv.inp[j]
        /\ DistinctNames(hyperparams) => conv.out = conv.inp

\* C7 witness: an array of two different values over two specs with
\* different names came back unchanged.
C7_Witness ==
    /\ conv.op = "arr"
    /\ Len(hyperparams) = 2
    /\ DistinctNames(hyperparams)
    /\ conv.inp[1] # conv.inp[2]
    /\ conv.out = conv.inp

\* C7 (as stated): both round trips are the identity for every ParameterSpec
\* list, one with a repeated name included.
C7_RoundTripAnyNames ==
    conv.op \in {"arr", "dict"} => conv.out = conv.inp

\* ---- C8 ----------------------------------------------------------------
\* C8: in one iteration the optimizer is invoked at most n_restarts_optimizer
\* times, in increasing restart index; only the last invocation can have
\* succeeded; a successful one ends the iteration with its result as the
\* proposal; the fallback is taken only after n_restarts_optimizer failures.
C8_RestartPolicy ==
    /\ Len(attempts) <= n_restarts_optimizer
    /\ \A k \in DOMAIN attempts :
        /\ attempts[k].idx = k - 1
        /\ k < Len(attempts) => ~attempts[k].ok
    /\ (attempts # << >> /\ attempts[Len(attempts)].ok) =>
        /\ pc \in {"evaluate", "record"}
        /\ LastOrigin = "success"
        /\ new_hyperparams = <<NewParams(hyperparams, attempts[Len(attempts)].x)>>
    /\ (InLoop /\ Decided /\ LastOrigin = "success") =>
        (attempts # << >> /\ attempts[Len(attempts)].ok)
    /\ (InLoop /\ Decided /\ LastOrigin = "fallback") =>
        /\ Len(attempts) = n_restarts_optimizer
        /\ \A k \in DOMAIN attempts : ~attempts[k].ok

\* C8 witness: the first attempt failed, the second succeeded and its result
\* is the proposal being evaluated.
C8_Witness ==
    /\ pc = "evaluate"
    /\ Len(attempts) = 2
    /\ ~attempts[1].ok
    /\ attempts[2].ok
    /\ LastOrigin = "success"

\* ---- C9 ----------------------------------------------------------------
\* C9: when all restarts of an iteration fail, the proposal evaluated and
\* appended to the history is the start vector of the last attempt in
\* dictionary form: it has every ParameterSpec name, each mapped to the
\* start vector's coordinate at that name's position (the last such position,
\* should a name repeat).
C9_FallbackIsLastStart ==
    /\ (pc \in {"evaluate", "record"} /\ Decided /\ LastOrigin = "fallback") =>
        /\ sv # << >>
        /\ Len(sv[1]) = Len(hyperparams)
        /\ new_hyperparams # << >>
        /\ DOMAIN new_hyperparams[1] = NameSet(hyperparams)
        /\ \A k \in DOMAIN hyperparams :
            (\A j \in (k + 1)..Len(hyperparams) :
                    hyperparams[j].name # hyperparams[k].name)
                => new_hyperparams[1][hyperparams[k].name] = sv[1][k]
    /\ (pc = "loop" /\ i > 0) =>
        hyperparam_history[Len(hyperparam_history)].params = new_hyperparams[1]

\* C9 witness: the entry just appended came from the fallback path of a
\* space with two differently named specs.
C9_Witness ==
    /\ pc = "loop"
    /\ i = 2
    /\ LastOrigin = "fallback"
    /\ Len(hyperparams) = 2
    /\ DistinctNames(hyperparams)
    /\ n_restarts_optimizer = 2

\* ---- C10 ---------------------------------------------------------------
\* C10: iteration i starts with the entries of iterations 0..i-1 appended;
\* iteration 0 neither fits nor queries the regressor and takes a random or
\* the default point; an iteration i > 0 refits the regressor exactly once,
\* before any attempt, on the whole history; the evaluation follows the
\* proposal and the append follows the evaluation.
C10_SequentialOrder ==
    /\ (InLoop \/ pc = "loop") =>
        /\ Len(hyperparam_history) = Len(hist0) + i
        /\ evals = (IF pc = "record" THEN i + 1 ELSE i)
        /\ Len(origins) = (IF pc \in {"evaluate", "record"} THEN i + 1 ELSE i)
    /\ (InLoop /\ i = 0) =>
        /\ refits = 0
        /\ ~optimizer.fitted
        /\ attempts = << >>
        /\ LastOrigin = "init"
    /\ (InLoop /\ i > 0) =>
        /\ refits = 1
        /\ optimizer.fitted
        /\ Len(optimizer.xs) = Len(hyperparam_history)
        /\ \A k \in DOMAIN hyperparam_history :
            /\ optimizer.ys[k] = hyperparam_history[k].score
            /\ \A j \in DOMAIN hyperparams :
                optimizer.xs[k][j] = hyperparam_history[k].params[hyperparams[j].name]
    /\ pc = "record" => (score # << >> /\ new_hyperparams # << >>)

\* C10 witness: in the third iteration the regressor has been refitted on the
\* two recorded entries and an attempt has been made.
C10_Witness ==
    /\ pc = "propose"
    /\ i = 2
    /\ Len(hist0) = 0
    /\ Len(optimizer.xs) = 2
    /\ Len(attempts) = 1

\* ---- C11 ---------------------------------------------------------------
\* The dispatch of optimize_categorical_problem: with at most GridThreshold
\* combinations every invocation is the exhaustive maximizer's and succeeds;
\* with more, every invocation is the annealer's and fails exactly when the
\* score it returned is NaN.
CategoricalDispatch ==
    optimization_type = "categorical" =>
        \A k \in DOMAIN attempts :
            IF n_combinations(hyperparams) <= GridThreshold
            THEN attempts[k].method = "CategoricalMaximizer" /\ attempts[k].ok
            ELSE /\ attempts[k].method = "MixedAnnealer"
                 /\ attempts[k].ok <=> ~attempts[k].nan

\* No iteration of the run took the fallback path.
NoFallback == non_convergence_count < 1 /\ NumFallbacks = 0

\* C11 (as stated): a categorical problem of at most 1000 combinations (1000
\* included) is maximized exhaustively and always succeeds, so the
\* non-convergence fallback is unreachable; one of more than 1000
\* combinations is maximized by the annealer, which fails exactly when its
\* returned score is NaN.
C11_GridDispatch ==
    /\ CategoricalDispatch
    /\ (optimization_type = "categorical"
            /\ n_combinations(hyperparams) <= GridThreshold) => NoFallback

\* The fallback of a categorical problem of at most 1000 combinations is
\* entered only when n_restarts_optimizer is 0, where no maximizer is invoked.
FallbackOnlyWithoutRestarts ==
    (optimization_type = "categorical"
        /\ n_combinations(hyperparams) <= GridThreshold
        /\ n_restarts_optimizer >= 1) => NoFallback

\* An annealer invocation has failed on a grid of 1001 combinations and an
\* exhaustive one has been made on a grid of exactly 1000.
SeenAnnealerFail ==
    /\ n_combinations(hyperparams) = 1001
    /\ attempts # << >>
    /\ attempts[1].nan
SeenExhaustiveAtThreshold ==
    /\ n_combinations(hyperparams) = GridThreshold
    /\ attempts # << >>
    /\ attempts[1].method = "CategoricalMaximizer"

====
